---- MODULE Spec2Model ----
(***************************************************************************)
(* Model of api/src/processing/services/youtube.js (cobalt).               *)
(*                                                                         *)
(* Two parts share the module:                                             *)
(*   - cloneInnertube: the process-wide client (innertube,                 *)
(*     lastRefreshedAt), the per-call session and the OAuth cookie, run    *)
(*     by concurrent calls that interleave at every await (Spec, SpecSeq). *)
(*   - the default export from the await of getBasicInfo to its return:    *)
(*     a synchronous computation on the fetched info and the request       *)
(*     options (SpecResolve).                                              *)
(*                                                                         *)
(* JavaScript values: a string is a tuple of text atoms (endsWith,         *)
(* includes and split work on the atoms), undefined is the tuple           *)
(* Undefined, false in a string-valued field is the tuple False, a date    *)
(* string is the tuple <<"iso", ms>>, a time is a number of milliseconds   *)
(* and NaN is the number NaN.  pc, ret and the kind of info and res are    *)
(* the model's own tags.                                                   *)
(***************************************************************************)
EXTENDS Integers, Sequences, FiniteSets, TLC

VARIABLES now, innertube, lastRefreshedAt, cookie, pc, session, oauthData, ret,
          o, info, res

vars == <<now, innertube, lastRefreshedAt, cookie, pc, session, oauthData, ret,
          o, info, res>>

clientVars == <<now, innertube, lastRefreshedAt, cookie, pc, session, oauthData, ret>>
resolveVars == <<o, info, res>>

\* ---------------------------------------------------------------- values

Undefined == <<"undefined">>

NaN == -1

PLAYER_REFRESH_PERIOD == 1000 * 60 * 15

\* Number of refresh periods the clock runs over.
MaxPeriods == 2

\* The instants at which something happens: around every multiple of the period.
Instants ==
    { t \in { k * PLAYER_REFRESH_PERIOD + d : k \in 0..MaxPeriods, d \in {-1, 0, 1} } : t >= 0 }

\* The concurrent calls of the default export.
Callers == {"r1", "r2"}

\* a < b on JS numbers: false as soon as one side is NaN.
LessThan(a, b) == a # NaN /\ b # NaN /\ a < b

\* a !== b on JS numbers: NaN differs from everything, itself included.
StrictNotEqual(a, b) == a = NaN \/ b = NaN \/ a # b

\* a + b on JS numbers.
Plus(a, b) == IF a = NaN \/ b = NaN THEN NaN ELSE a + b

\* Date.prototype.toISOString of a valid date.
toISOString(t) == <<"iso", t>>

\* new Date(v).getTime(): the time of a date string, NaN for undefined.
getTime(v) == IF v = Undefined THEN NaN ELSE v[2]

\* ---------------------------------------------------------------- cookie

\* getCookie('youtube_oauth') returned nothing.
NoCookie ==
    [present |-> FALSE, access_token |-> Undefined, refresh_token |-> Undefined,
     expires |-> Undefined, expiry_date |-> Undefined]

InitialExpiry == toISOString(PLAYER_REFRESH_PERIOD - 1)

\* The bundles the credential store may hold when the process starts.
InitialCookies ==
    { NoCookie }
    \cup { [present |-> TRUE, access_token |-> <<"at0">>, refresh_token |-> rt,
            expires |-> ex, expiry_date |-> ed] :
             rt \in {Undefined, <<"rt0">>},
             ex \in {Undefined, InitialExpiry},
             ed \in {Undefined, InitialExpiry} }

\* transformSessionData returned nothing (line 32, 38 or 45).
NoTokens == [access_token |-> Undefined, refresh_token |-> Undefined, expiry_date |-> Undefined]

transformSessionData(c) ==
    IF ~c.present THEN NoTokens
    ELSE IF c.access_token = Undefined \/ c.refresh_token = Undefined THEN NoTokens
    ELSE IF c.expires # Undefined
         THEN [access_token |-> c.access_token, refresh_token |-> c.refresh_token,
               expiry_date |-> c.expires]
    ELSE IF c.expiry_date = Undefined THEN NoTokens
    ELSE [access_token |-> c.access_token, refresh_token |-> c.refresh_token,
          expiry_date |-> c.expiry_date]

\* updateCookieValues(cookie, values): the fields of values replace the cookie's.
updateCookieValues(c, values) ==
    [c EXCEPT !.access_token = values.access_token,
              !.refresh_token = values.refresh_token,
              !.expiry_date = values.expiry_date]

\* session.oauth.shouldRefreshToken(): the access token has expired.
shouldRefreshToken(tokens) == LessThan(getTime(tokens.expiry_date), now)

\* The lifetime (expires_in, ms) the token endpoint grants.
ExpiresIn == {PLAYER_REFRESH_PERIOD}

\* ---------------------------------------------------------------- cloneInnertube

NoSession == [base |-> 0, logged_in |-> FALSE, tokens |-> NoTokens]

\* line 52
shouldRefreshPlayerAtPeriod(t) ==
    lastRefreshedAt # NaN /\ lastRefreshedAt + PLAYER_REFRESH_PERIOD <= t
shouldRefreshPlayer(t) == LessThan(Plus(lastRefreshedAt, PLAYER_REFRESH_PERIOD), t)

\* line 53
needsCreate(t) == innertube = 0 \/ shouldRefreshPlayer(t)

\* lines 84-94: write the cookie back when the expiry differs from the stored one.
persisted(tokens) ==
    LET oldExpiry == getTime(cookie.expiry_date)
        newExpiry == getTime(tokens.expiry_date)
    IN  IF StrictNotEqual(oldExpiry, newExpiry)
        THEN updateCookieValues(cookie,
                 [tokens EXCEPT !.expiry_date = toISOString(newExpiry)])
        ELSE cookie

\* The client the session of a call is built from (line 60-69).
sessionBaseBeforeAwait(p, it) == innertube
sessionBase(p, it) == it

\* lines 60-77, up to the await of session.oauth.init or, with no usable
\* bundle, to the return of the client built on the anonymous session.
buildSession(p, it) ==
    LET od == transformSessionData(cookie)
    IN  /\ oauthData' = [oauthData EXCEPT ![p] = od]
        /\ session' = [session EXCEPT ![p] =
                          [base |-> sessionBase(p, it), logged_in |-> FALSE, tokens |-> NoTokens]]
        /\ IF od # NoTokens
           THEN pc' = [pc EXCEPT ![p] = "init"] /\ ret' = ret
           ELSE pc' = [pc EXCEPT ![p] = "fetch"] /\ ret' = [ret EXCEPT ![p] = "yt"]
        /\ cookie' = cookie

\* A call of the default export enters cloneInnertube (lines 101-104, 52-53):
\* with a present, fresh client it goes on to the session at once.
Enter(p) ==
    /\ pc[p] = "idle"
    /\ IF needsCreate(now)
       THEN /\ pc' = [pc EXCEPT ![p] = "create"]
            /\ UNCHANGED <<innertube, lastRefreshedAt, cookie, session, oauthData, ret>>
       ELSE /\ buildSession(p, innertube)
            /\ UNCHANGED <<innertube, lastRefreshedAt>>
    /\ UNCHANGED <<now, resolveVars>>

\* Innertube.create resolves (lines 54-57), then lines 60-77.
CreateDone(p) ==
    /\ pc[p] = "create"
    /\ innertube' = innertube + 1
    /\ lastRefreshedAt' = now
    /\ buildSession(p, innertube + 1)
    /\ UNCHANGED <<now, resolveVars>>

\* Innertube.create rejects; the default export maps the message (lines 110-116).
CreateFail(p) ==
    /\ pc[p] = "create"
    /\ \E e \in {"youtube.decipher", "throw"} :
          ret' = [ret EXCEPT ![p] = e]
    /\ pc' = [pc EXCEPT ![p] = "done"]
    /\ UNCHANGED <<now, innertube, lastRefreshedAt, cookie, session, oauthData, resolveVars>>

\* lines 79-97 once the tokens are final.
finishLogin(p, tokens) ==
    /\ session' = [session EXCEPT ![p] = [@ EXCEPT !.logged_in = TRUE, !.tokens = tokens]]
    /\ cookie' = persisted(tokens)
    /\ pc' = [pc EXCEPT ![p] = "fetch"]
    /\ ret' = [ret EXCEPT ![p] = "yt"]

\* session.oauth.init resolves (lines 75-80).
InitDone(p) ==
    /\ pc[p] = "init"
    /\ IF shouldRefreshToken(oauthData[p])
       THEN /\ session' = [session EXCEPT ![p] =
                              [@ EXCEPT !.logged_in = TRUE, !.tokens = oauthData[p]]]
            /\ pc' = [pc EXCEPT ![p] = "refresh"]
            /\ UNCHANGED <<cookie, ret>>
       ELSE finishLogin(p, oauthData[p])
    /\ UNCHANGED <<now, innertube, lastRefreshedAt, oauthData, resolveVars>>

\* session.oauth.refreshAccessToken resolves (lines 81-97).
RefreshDone(p) ==
    /\ pc[p] = "refresh"
    /\ \E life \in ExpiresIn :
          finishLogin(p, [session[p].tokens EXCEPT
                             !.access_token = <<"at1">>,
                             !.expiry_date = toISOString(now + life)])
    /\ UNCHANGED <<now, innertube, lastRefreshedAt, oauthData, resolveVars>>

\* session.oauth.refreshAccessToken rejects (lines 113-114).
RefreshFail(p) ==
    /\ pc[p] = "refresh"
    /\ ret' = [ret EXCEPT ![p] = "youtube.token_expired"]
    /\ pc' = [pc EXCEPT ![p] = "done"]
    /\ UNCHANGED <<now, innertube, lastRefreshedAt, cookie, session, oauthData, resolveVars>>

\* The call ends: with the client, after getBasicInfo and the synchronous rest
\* (which reads no shared state), or with the error of lines 110-116.
Return(p) ==
    /\ pc[p] \in {"fetch", "done"}
    /\ pc' = [pc EXCEPT ![p] = "idle"]
    /\ session' = [session EXCEPT ![p] = NoSession]
    /\ oauthData' = [oauthData EXCEPT ![p] = NoTokens]
    /\ ret' = [ret EXCEPT ![p] = "none"]
    /\ UNCHANGED <<now, innertube, lastRefreshedAt, cookie, resolveVars>>

\* Time passes.
Tick ==
    /\ \E t \in Instants : t > now /\ now' = t
    /\ UNCHANGED <<innertube, lastRefreshedAt, cookie, pc, session, oauthData, ret, resolveVars>>


\* ---------------------------------------------------------------- strings

False == <<"false">>

\* s.endsWith(suffix)
EndsWith(s, suffix) ==
    /\ Len(s) >= Len(suffix)
    /\ SubSeq(s, Len(s) - Len(suffix) + 1, Len(s)) = suffix

\* s.includes(atom)
Includes(s, atom) == \E i \in 1..Len(s) : s[i] = atom

\* s.split(sep, 2)[0]: the text before the first sep, all of s without one.
SplitFirst(s, sep) ==
    IF Includes(s, sep)
    THEN SubSeq(s, 1, (CHOOSE i \in 1..Len(s) : s[i] = sep /\ \A j \in 1..(i - 1) : s[j] # sep) - 1)
    ELSE s

Numerals == ("144" :> 144) @@ ("360" :> 360) @@ ("720" :> 720) @@ ("1080" :> 1080)
            @@ ("9000" :> 9000)

\* Number(s)
Number(s) ==
    IF s = Undefined THEN NaN
    ELSE IF s = <<>> THEN 0
    ELSE IF Len(s) = 1 /\ s[1] \in DOMAIN Numerals THEN Numerals[s[1]]
    ELSE NaN

\* a > b on JS numbers.
GreaterThan(a, b) == a # NaN /\ b # NaN /\ a > b

\* array.find(test): the first element at one of the places that pass the test,
\* NoFormat (undefined) without one.
NoTrack == [present |-> FALSE, audio_is_default |-> FALSE]

NoFormat ==
    [url |-> Undefined, mime_type |-> Undefined, bitrate |-> 0, has_video |-> FALSE,
     has_audio |-> FALSE, content_length |-> 0, quality_label |-> Undefined,
     language |-> Undefined, is_original |-> FALSE, audio_track |-> NoTrack]

Find(seq, passing) ==
    IF passing # {}
    THEN seq[CHOOSE i \in passing : \A j \in passing : i <= j]
    ELSE NoFormat

\* array.sort((a, b) => Number(b.bitrate) - Number(a.bitrate)): stable, descending.
RECURSIVE SortByBitrate(_)
SortByBitrate(seq) ==
    IF Len(seq) <= 1 THEN seq
    ELSE LET rest == SortByBitrate(Tail(seq))
             x == Head(seq)
             before == SelectSeq(rest, LAMBDA e : e.bitrate > x.bitrate)
             after == SelectSeq(rest, LAMBDA e : e.bitrate <= x.bitrate)
         IN  before \o <<x>> \o after

\* ---------------------------------------------------------------- default export

codecList(format) ==
    CASE format = <<"h264">> ->
            [videoCodec |-> "avc1", audioCodec |-> "mp4a", container |-> <<"mp4">>]
      [] format = <<"av1">> ->
            [videoCodec |-> "av01", audioCodec |-> "opus", container |-> <<"webm">>]
      [] format = <<"vp9">> ->
            [videoCodec |-> "vp9", audioCodec |-> "opus", container |-> <<"webm">>]

\* env.durationLimit (seconds)
durationLimit == 10800

\* The value the default export returns, or the exception it raises.
Result(kind, error, critical) ==
    [kind |-> kind, error |-> error, critical |-> critical, urls |-> <<>>,
     youtubeDubName |-> False, qualityLabel |-> Undefined, extension |-> Undefined,
     youtubeFormat |-> Undefined, bestAudio |-> Undefined]

Error(e) == Result("error", e, FALSE)

TypeError == Result("exception", <<"TypeError">>, FALSE)

\* The switch of lines 136-163: an error, a TypeError, or <<"break">>.
playabilitySwitch(playability) ==
    CASE playability.status = <<"LOGIN_REQUIRED">> ->
            IF playability.reason = Undefined THEN <<"TypeError">>
            ELSE IF EndsWith(playability.reason, <<"bot">>) THEN <<"youtube.login">>
            ELSE IF EndsWith(playability.reason, <<"age">>) THEN <<"content.video.age">>
            ELSE IF playability.error_screen.reason = <<"Private video">>
                 THEN <<"content.video.private">>
            ELSE <<"break">>
      [] playability.status = <<"UNPLAYABLE">> ->
            IF playability.reason # Undefined
               /\ EndsWith(playability.reason, <<"request limit.">>) THEN <<"fetch.rate">>
            ELSE IF playability.error_screen.subreason # Undefined
                    /\ EndsWith(playability.error_screen.subreason, <<"in your country">>)
                 THEN <<"content.video.region">>
            ELSE IF playability.error_screen.reason = <<"Private video">>
                 THEN <<"content.video.private">>
            ELSE <<"break">>
      [] playability.status = <<"AGE_VERIFICATION_REQUIRED">> -> <<"content.video.age">>
      [] OTHER -> <<"break">>

\* lines 188-194
filterByCodec(formats, format) ==
    SortByBitrate(SelectSeq(formats, LAMBDA e :
        \/ Includes(e.mime_type, codecList(format).videoCodec)
        \/ Includes(e.mime_type, codecList(format).audioCodec)))

\* line 210
checkBestAudio(i) == i.has_audio /\ ~i.has_video

\* lines 266-272 (of a format that is there)
qual(i) ==
    IF i.quality_label = Undefined \/ i.quality_label = <<>> THEN Undefined
    ELSE SplitFirst(SplitFirst(i.quality_label, "p"), "s")

\* line 203
bestVideoOf(formats) ==
    Find(formats, { k \in DOMAIN formats : formats[k].has_video /\ formats[k].content_length # 0 })

\* line 204
hasAudioOf(formats) ==
    Find(formats, { k \in DOMAIN formats : formats[k].has_audio /\ formats[k].content_length # 0 })

\* lines 215-218: the track the dub language picks.
dubbedAudioOfNotDefault(formats, dubLang) ==
    Find(formats, { k \in DOMAIN formats :
        /\ checkBestAudio(formats[k]) /\ formats[k].language = dubLang
        /\ formats[k].audio_track.present /\ ~formats[k].audio_track.audio_is_default })
dubbedAudioOf(formats, dubLang) ==
    Find(formats, { k \in DOMAIN formats :
        /\ checkBestAudio(formats[k]) /\ formats[k].language = dubLang
        /\ formats[k].audio_track.present })

\* lines 212-228: <<audio, isDubbed>>
audioOf(formats, dubLang) ==
    LET original == Find(formats, { k \in DOMAIN formats :
                            checkBestAudio(formats[k]) /\ formats[k].is_original })
        wantsDub == dubLang # Undefined /\ dubLang # <<>>
        dubbedAudio == dubbedAudioOf(formats, dubLang)
        isDubbed == wantsDub /\ dubbedAudio # NoFormat
                       /\ ~dubbedAudio.audio_track.audio_is_default
        audio == IF isDubbed THEN dubbedAudio ELSE original
    IN  << IF audio = NoFormat
           THEN Find(formats, { k \in DOMAIN formats : checkBestAudio(formats[k]) })
           ELSE audio,
           isDubbed >>

\* lines 274-280: the video of the merge, NoFormat without one.
videoOf(formats, bestVideo, requested) ==
    LET quality == IF requested = <<"max">> THEN <<"9000">> ELSE requested
        bestQuality == qual(bestVideo)
        matchingQuality ==
            IF GreaterThan(Number(quality), Number(bestQuality)) THEN bestQuality ELSE quality
    IN  Find(formats, { k \in DOMAIN formats :
            /\ qual(formats[k]) = matchingQuality
            /\ formats[k].has_video /\ ~formats[k].has_audio })

\* lines 186, 196-201: the codec family the formats are taken from.
formatOf(inf, opt) ==
    LET requested == IF opt.format = Undefined \/ opt.format = <<>> THEN <<"h264">> ELSE opt.format
    IN  IF Len(filterByCodec(inf.adaptive_formats, requested)) = 0
           /\ requested \in {<<"vp9">>, <<"av1">>}
        THEN <<"h264">>
        ELSE requested

\* lines 196-201: the formats of that family, by falling bitrate.
adaptiveFormatsOf(inf, opt) == filterByCodec(inf.adaptive_formats, formatOf(inf, opt))

\* lines 186-302
select(inf, opt) ==
    LET format == formatOf(inf, opt)
        adaptive_formats == adaptiveFormatsOf(inf, opt)
        bestVideo == bestVideoOf(adaptive_formats)
        hasAudio == hasAudioOf(adaptive_formats)
        picked == audioOf(adaptive_formats, opt.dubLang)
        audio == picked[1]
        youtubeDubName == IF picked[2] THEN opt.dubLang ELSE False
        video == videoOf(adaptive_formats, bestVideo, opt.quality)
    IN  IF (bestVideo = NoFormat /\ ~opt.isAudioOnly) \/ (hasAudio = NoFormat /\ opt.isAudioOnly)
        THEN Error(<<"fetch.empty">>)
        ELSE IF audio # NoFormat /\ opt.isAudioOnly
        THEN [Result("audio", Undefined, FALSE) EXCEPT
                 !.urls = <<audio.url>>,
                 !.youtubeDubName = youtubeDubName,
                 !.bestAudio = IF format = <<"h264">> THEN <<"m4a">> ELSE <<"opus">>]
        ELSE IF bestVideo = NoFormat THEN TypeError
        ELSE IF video # NoFormat /\ audio # NoFormat
        THEN [Result("merge", Undefined, FALSE) EXCEPT
                 !.urls = <<video.url, audio.url>>,
                 !.youtubeDubName = youtubeDubName,
                 !.qualityLabel = video.quality_label,
                 !.extension = codecList(format).container,
                 !.youtubeFormat = format]
        ELSE Error(<<"fetch.fail">>)

\* lines 169-184, then select (the checks on a video whose status is OK)
basicInfoChecksDurationFirst(inf, opt) ==
    IF inf.duration > durationLimit THEN Error(<<"content.too_long">>)
    ELSE IF inf.is_live THEN Error(<<"content.video.live">>)
    ELSE IF inf.id # opt.id THEN Result("error", <<"fetch.fail">>, TRUE)
    ELSE select(inf, opt)
basicInfoChecksNoId(inf, opt) ==
    IF inf.is_live THEN Error(<<"content.video.live">>)
    ELSE IF inf.duration > durationLimit THEN Error(<<"content.too_long">>)
    ELSE select(inf, opt)
basicInfoChecks(inf, opt) ==
    IF inf.is_live THEN Error(<<"content.video.live">>)
    ELSE IF inf.duration > durationLimit THEN Error(<<"content.too_long">>)
    ELSE IF inf.id # opt.id THEN Result("error", <<"fetch.fail">>, TRUE)
    ELSE select(inf, opt)

\* lines 131-167, then the checks above
resolve(inf, opt) ==
    LET playability == inf.playability_status
        switched == playabilitySwitch(playability)
    IN  IF switched = <<"TypeError">> THEN TypeError
        ELSE IF switched # <<"break">> THEN Error(switched)
        ELSE IF playability.status # <<"OK">> THEN Error(<<"content.video.unavailable">>)
        ELSE basicInfoChecks(inf, opt)

\* ---------------------------------------------------------------- inputs

\* Most formats getBasicInfo lists for one video.
MaxFormats == 3

Track(isDefault) == [present |-> TRUE, audio_is_default |-> isDefault]

VideoOnly(url, codec, bitrate, length, label) ==
    [url |-> url, mime_type |-> <<"video/", codec>>, bitrate |-> bitrate, has_video |-> TRUE,
     has_audio |-> FALSE, content_length |-> length, quality_label |-> label,
     language |-> Undefined, is_original |-> TRUE, audio_track |-> NoTrack]

AudioOnly(url, codec, bitrate, length, language, original, track) ==
    [url |-> url, mime_type |-> <<"audio/", codec>>, bitrate |-> bitrate, has_video |-> FALSE,
     has_audio |-> TRUE, content_length |-> length, quality_label |-> Undefined,
     language |-> language, is_original |-> original, audio_track |-> track]

\* The formats a video may list, in the order getBasicInfo lists them.
Catalogue ==
    << VideoOnly(<<"v1080">>, "avc1", 4000, 9000000, <<"1080", "p">>),
       VideoOnly(<<"v720hfr">>, "avc1", 5000, 9000000, <<"720", "p", "60">>),
       VideoOnly(<<"v720nolen">>, "avc1", 6000, 0, <<"720", "p">>),
       [ VideoOnly(<<"av360">>, "avc1", 700, 9000000, <<"360", "p">>) EXCEPT
            !.mime_type = <<"video/", "avc1", ", ", "mp4a">>, !.has_audio = TRUE ],
       AudioOnly(<<"aEn">>, "mp4a", 128, 9000000, <<"en">>, TRUE, Track(TRUE)),
       AudioOnly(<<"aEs">>, "mp4a", 160, 9000000, <<"es">>, FALSE, Track(FALSE)),
       AudioOnly(<<"aEsDefault">>, "mp4a", 200, 9000000, <<"es">>, FALSE, Track(TRUE)),
       AudioOnly(<<"aEsNolen">>, "mp4a", 256, 0, <<"es">>, TRUE, NoTrack),
       VideoOnly(<<"vVp9">>, "vp9", 3000, 9000000, <<"1080", "p">>),
       AudioOnly(<<"aOpus">>, "opus", 150, 9000000, <<"en">>, TRUE, Track(TRUE)) >>

\* The formats of Catalogue at the places of picks, in catalogue order.
RECURSIVE Listed(_, _)
Listed(picks, from) ==
    IF from > Len(Catalogue) THEN <<>>
    ELSE (IF from \in picks THEN <<Catalogue[from]>> ELSE <<>>) \o Listed(picks, from + 1)

FormatLists ==
    { Listed(picks, 1) : picks \in { x \in SUBSET (1..Len(Catalogue)) : Cardinality(x) <= MaxFormats } }

Statuses ==
    { <<"OK">>, <<"LOGIN_REQUIRED">>, <<"UNPLAYABLE">>, <<"AGE_VERIFICATION_REQUIRED">>,
      <<"ERROR">> }

Reasons ==
    { Undefined, <<>>,
      <<"Sign in to confirm you're not a ", "bot">>,
      <<"Sign in to confirm your ", "age">>,
      <<"The current session has been rate-limited by the ", "request limit.">>,
      <<"Video unavailable">> }

PlayabilityStatuses ==
    { [status |-> st, reason |-> rs, error_screen |-> [reason |-> er, subreason |-> sr]] :
        st \in Statuses, rs \in Reasons,
        er \in {Undefined, <<"Private video">>},
        sr \in {Undefined, <<"The uploader has not made this video available ", "in your country">>} }

Playable == [status |-> <<"OK">>, reason |-> Undefined,
             error_screen |-> [reason |-> Undefined, subreason |-> Undefined]]

BasicInfos ==
    { [id |-> id, is_live |-> live, duration |-> d] :
        id \in {<<"abc">>, <<"stub">>}, live \in BOOLEAN,
        d \in {durationLimit, durationLimit + 1} }

Info(basic, playability, formats) ==
    [kind |-> "info", id |-> basic.id, is_live |-> basic.is_live, duration |-> basic.duration,
     playability_status |-> playability, adaptive_formats |-> formats]

\* What getBasicInfo may resolve to: every playability status over one list of
\* formats, and every list of formats of a playable video.
Infos ==
    { Info(b, ps, Listed({1, 5}, 1)) : b \in BasicInfos, ps \in PlayabilityStatuses }
    \cup { Info(b, Playable, fl) : b \in BasicInfos, fl \in FormatLists }

\* Before getBasicInfo settles, and the ways it settles without an info.
NoInfo(kind) ==
    [kind |-> kind, id |-> Undefined, is_live |-> FALSE, duration |-> 0,
     playability_status |-> Playable, adaptive_formats |-> <<>>]

Requests ==
    { [id |-> <<"abc">>, format |-> f, isAudioOnly |-> a, dubLang |-> l, quality |-> q] :
        f \in {Undefined, <<"vp9">>, <<"av1">>}, a \in BOOLEAN,
        l \in {Undefined, <<"es">>},
        q \in {<<"max">>, <<"720">>, <<"1080">>} }

Pending == Result("pending", Undefined, FALSE)

\* getBasicInfo settles and the default export runs to its return (lines 118-302).
GetBasicInfo ==
    /\ info.kind = "pending"
    /\ \/ \E inf \in Infos :
             /\ info' = inf
             /\ res' = resolve(inf, o)
       \/ \E e \in {"private", "unavailable", "other", "null"} :
             /\ info' = NoInfo(e)
             /\ res' = CASE e = "private" -> Error(<<"content.video.private">>)
                         [] e = "unavailable" -> Error(<<"content.video.unavailable">>)
                         [] OTHER -> Error(<<"fetch.fail">>)
    /\ UNCHANGED <<o, clientVars>>

\* A request whose client has been acquired.
InitResolve ==
    /\ now = 0
    /\ innertube = 1
    /\ lastRefreshedAt = 0
    /\ cookie = NoCookie
    /\ pc = [p \in Callers |-> IF p = "r1" THEN "fetch" ELSE "idle"]
    /\ session = [p \in Callers |-> IF p = "r1" THEN [NoSession EXCEPT !.base = 1] ELSE NoSession]
    /\ oauthData = [p \in Callers |-> NoTokens]
    /\ ret = [p \in Callers |-> IF p = "r1" THEN "yt" ELSE "none"]
    /\ o \in Requests
    /\ info = NoInfo("pending")
    /\ res = Pending

NextResolve == GetBasicInfo

SpecResolve == InitResolve /\ [][NextResolve]_vars

NoRequest == [format |-> Undefined, isAudioOnly |-> FALSE, dubLang |-> Undefined,
              quality |-> Undefined, id |-> Undefined]

Init ==
    /\ now = 0
    /\ innertube = 0
    /\ lastRefreshedAt = NaN
    /\ cookie \in InitialCookies
    /\ pc = [p \in Callers |-> "idle"]
    /\ session = [p \in Callers |-> NoSession]
    /\ oauthData = [p \in Callers |-> NoTokens]
    /\ ret = [p \in Callers |-> "none"]
    /\ o = NoRequest
    /\ info = NoInfo("pending")
    /\ res = Pending

Step(p) ==
    \/ Enter(p)
    \/ CreateDone(p)
    \/ CreateFail(p)
    \/ InitDone(p)
    \/ RefreshDone(p)
    \/ RefreshFail(p)
    \/ Return(p)

Next ==
    \/ \E p \in Callers : Step(p)
    \/ Tick

Spec == Init /\ [][Next]_vars

\* One call at a time: a call starts or goes on only while no other is under way.
Alone(p) == \A q \in Callers \ {p} : pc[q] = "idle"

NextSeq ==
    \/ \E p \in Callers : Alone(p) /\ Enter(p)
    \/ \E p \in Callers : Alone(p) /\ CreateDone(p)
    \/ \E p \in Callers : Alone(p) /\ CreateFail(p)
    \/ \E p \in Callers : Alone(p) /\ InitDone(p)
    \/ \E p \in Callers : Alone(p) /\ RefreshDone(p)
    \/ \E p \in Callers : Alone(p) /\ RefreshFail(p)
    \/ \E p \in Callers : Alone(p) /\ Return(p)
    \/ Tick

SpecSeq == Init /\ [][NextSeq]_vars

\* ---------------------------------------------------------------- claims

\* getBasicInfo has returned an info and the default export has run on it.
Resolved == info.kind = "info"

IsPlan == res.kind \in {"audio", "merge"}

Live == Error(<<"content.video.live">>)

CriticalFail == Result("error", <<"fetch.fail">>, TRUE)

C2_IdMismatchAlways ==
    (Resolved /\ info.id # o.id) => (res = CriticalFail /\ ~IsPlan)

\* C2, amended: an info of another id whose status is OK, that is not live and
\* not too long resolves to the critical fetch.fail; and no plan is made from an
\* info of another id.
C2_IdMismatchWhenPlayable ==
    (Resolved /\ info.id # o.id) =>
        /\ ~IsPlan
        /\ (info.playability_status.status = <<"OK">> /\ ~info.is_live
            /\ info.duration <= durationLimit) => res = CriticalFail

\* An info of another id that would otherwise give a plan: it lists a video
\* and an audio format of the default family.
C2_Witness ==
    /\ Resolved /\ info.id # o.id
    /\ info.playability_status.status = <<"OK">> /\ ~info.is_live
    /\ info.duration <= durationLimit
    /\ info.adaptive_formats = Listed({1, 5}, 1) /\ o.format = Undefined
    /\ res = CriticalFail

\* The table of the playability gate: the error of a status and its
\* conditions, <<"pass">> for OK.
GateTable(ps) ==
    LET reasonEnds(suffix) == ps.reason # Undefined /\ EndsWith(ps.reason, suffix)
        private == ps.error_screen.reason = <<"Private video">>
        region == ps.error_screen.subreason # Undefined
                    /\ EndsWith(ps.error_screen.subreason, <<"in your country">>)
    IN  CASE ps.status = <<"LOGIN_REQUIRED">> /\ reasonEnds(<<"bot">>) -> <<"youtube.login">>
          [] ps.status = <<"LOGIN_REQUIRED">> /\ reasonEnds(<<"age">>) -> <<"content.video.age">>
          [] ps.status = <<"LOGIN_REQUIRED">> /\ private -> <<"content.video.private">>
          [] ps.status = <<"UNPLAYABLE">> /\ reasonEnds(<<"request limit.">>) -> <<"fetch.rate">>
          [] ps.status = <<"UNPLAYABLE">> /\ region -> <<"content.video.region">>
          [] ps.status = <<"UNPLAYABLE">> /\ private -> <<"content.video.private">>
          [] ps.status = <<"AGE_VERIFICATION_REQUIRED">> -> <<"content.video.age">>
          [] ps.status = <<"OK">> -> <<"pass">>
          [] OTHER -> <<"content.video.unavailable">>

\* C5: the outcome of the playability gate is the table's for every status and
\* conditions, and no plan is returned for a status other than OK.
C5_GateIsTable ==
    Resolved =>
        /\ GateTable(info.playability_status) # <<"pass">>
              => res = Error(GateTable(info.playability_status))
        /\ IsPlan => info.playability_status.status = <<"OK">>

\* Auxiliary: where the reason is there, the outcome is the table's.
GateIsTableWithReason ==
    (Resolved /\ info.playability_status.reason # Undefined) => C5_GateIsTable

\* C10: the default export returns a plan or an error for every info and
\* request and raises nothing; an audio-only request whose audio is carried by
\* combined formats alone ends in an error.
C10_Total ==
    Resolved =>
        /\ res.kind \in {"error", "audio", "merge"}
        /\ ( /\ o.isAudioOnly
             /\ \A i \in 1..Len(info.adaptive_formats) :
                   info.adaptive_formats[i].has_audio => info.adaptive_formats[i].has_video )
           => res.kind = "error"

\* The video-only formats of the family the plan was made from.
AdaptiveVideos ==
    { i \in 1..Len(adaptiveFormatsOf(info, o)) :
        adaptiveFormatsOf(info, o)[i].has_video /\ ~adaptiveFormatsOf(info, o)[i].has_audio }

\* C6: with quality "max" the video of the merge is the video-only format of
\* the resolved family whose quality label is numerically greatest.
C6_MaxIsHighestLabel ==
    (Resolved /\ ~o.isAudioOnly /\ o.quality = <<"max">> /\ res.kind = "merge") =>
        \E i \in AdaptiveVideos :
            /\ adaptiveFormatsOf(info, o)[i].url = res.urls[1]
            /\ \A j \in AdaptiveVideos :
                  Number(qual(adaptiveFormatsOf(info, o)[j]))
                      <= Number(qual(adaptiveFormatsOf(info, o)[i]))

\* The audio-only formats of the family, as places in the sorted list.
AudioTracks ==
    { i \in 1..Len(adaptiveFormatsOf(info, o)) :
        adaptiveFormatsOf(info, o)[i].has_audio /\ ~adaptiveFormatsOf(info, o)[i].has_video }

DubMatches ==
    { i \in AudioTracks :
        /\ adaptiveFormatsOf(info, o)[i].language = o.dubLang
        /\ adaptiveFormatsOf(info, o)[i].audio_track.present }

Originals == { i \in AudioTracks : adaptiveFormatsOf(info, o)[i].is_original }

Lowest(places) == CHOOSE i \in places : \A j \in places : i <= j

\* The url of the plan's audio.
AudioUrl == res.urls[Len(res.urls)]

UrlAt(i) == adaptiveFormatsOf(info, o)[i].url

DubRequested == Resolved /\ IsPlan /\ o.dubLang # Undefined

\* C7 as stated: with a dub language requested, the audio is a dub track and
\* youtubeDubName the language exactly when some audio-only track of that
\* language has track metadata and is not the default; otherwise the audio is
\* the first original audio-only track and youtubeDubName is false.
C7_DubIffSomeTrack ==
    DubRequested =>
        IF \E i \in DubMatches : ~adaptiveFormatsOf(info, o)[i].audio_track.audio_is_default
        THEN /\ res.youtubeDubName = o.dubLang
             /\ \E i \in DubMatches :
                   /\ ~adaptiveFormatsOf(info, o)[i].audio_track.audio_is_default
                   /\ AudioUrl = UrlAt(i)
        ELSE /\ res.youtubeDubName = False
             /\ Originals # {}
             /\ AudioUrl = UrlAt(Lowest(Originals))

\* C7, amended: the audio is the dub track exactly when the first (by falling
\* bitrate) audio-only track of the language with track metadata is not the
\* default; otherwise youtubeDubName is false and the audio is the first
\* original audio-only track, or without one the first audio-only track.
C7_DubIffFirstTrack ==
    DubRequested =>
        IF DubMatches # {}
           /\ ~adaptiveFormatsOf(info, o)[Lowest(DubMatches)].audio_track.audio_is_default
        THEN /\ res.youtubeDubName = o.dubLang
             /\ AudioUrl = UrlAt(Lowest(DubMatches))
        ELSE /\ res.youtubeDubName = False
             /\ AudioTracks # {}
             /\ AudioUrl = UrlAt(Lowest(IF Originals # {} THEN Originals ELSE AudioTracks))

\* The first track of the language is the default, a later one is not, and the
\* original audio was taken.
C7_Witness ==
    /\ DubRequested
    /\ DubMatches # {}
    /\ adaptiveFormatsOf(info, o)[Lowest(DubMatches)].audio_track.audio_is_default
    /\ \E i \in DubMatches : ~adaptiveFormatsOf(info, o)[i].audio_track.audio_is_default
    /\ Originals # {}
    /\ AudioUrl = UrlAt(Lowest(Originals))
    /\ res.youtubeDubName = False

\* C8: every format whose url is in the plan's urls has a content_length.
C8_UrlsHaveLength ==
    (Resolved /\ IsPlan) =>
        \A k \in 1..Len(res.urls) : \A i \in 1..Len(info.adaptive_formats) :
            info.adaptive_formats[i].url = res.urls[k]
                => info.adaptive_formats[i].content_length # 0

\* Caller p passes the check of lines 52-53 in this step.
Checks(p) == pc[p] = "idle" /\ pc'[p] # "idle"

\* Innertube.create has resolved in this step.
Rebuilt == innertube' # innertube

\* What holds of every rebuild, and of two rebuilds of calls that do not interleave.
C3_RebuildEffect ==
    Rebuilt =>
        /\ innertube' # 0
        /\ lastRefreshedAt' = now'
        /\ innertube # 0 => now - lastRefreshedAt > PLAYER_REFRESH_PERIOD

\* C3 as stated: a call rebuilds the shared client exactly when it is absent or
\* at least 15 minutes old, at exactly 15 minutes too; a rebuild sets
\* lastRefreshedAt, and calls that do not interleave rebuild at most once in a
\* window.
C3_RebuildAtPeriod ==
    [][ /\ \A p \in Callers :
              Checks(p) =>
                  ( pc'[p] = "create"
                      <=> (innertube = 0 \/ now - lastRefreshedAt >= PLAYER_REFRESH_PERIOD) )
        /\ C3_RebuildEffect ]_vars

\* C3, amended: a call rebuilds the shared client exactly when it is absent or
\* more than 15 minutes old, and keeps it at exactly 15 minutes; a rebuild sets
\* lastRefreshedAt to the time it completes, and two rebuilds of calls that do
\* not interleave are more than 15 minutes apart.
C3_RebuildAfterPeriod ==
    [][ /\ \A p \in Callers :
              Checks(p) =>
                  ( pc'[p] = "create"
                      <=> (innertube = 0 \/ now - lastRefreshedAt > PLAYER_REFRESH_PERIOD) )
        /\ C3_RebuildEffect ]_vars

\* A call holds a session of the first client, which is exactly 15 minutes old.
C3_Witness ==
    \E p \in Callers :
        /\ pc[p] = "fetch" /\ session[p].base = 1 /\ innertube = 1
        /\ now - lastRefreshedAt = PLAYER_REFRESH_PERIOD

\* Caller p comes out of the OAuth steps of lines 75-95 in this step.
LoggedIn(p) == pc[p] \in {"init", "refresh"} /\ pc'[p] = "fetch"

\* C4: the credential store is written only when the expiry of the session's
\* tokens differs from the expiry the stored bundle had when the call read it,
\* under expires or under expiry_date.
C4_WriteOnlyOnChange ==
    [][ \A p \in Callers :
          (LoggedIn(p) /\ cookie' # cookie) =>
              getTime(session'[p].tokens.expiry_date) # getTime(oauthData[p].expiry_date) ]_vars

\* Auxiliary: for a bundle that holds its expiry under expiry_date alone the
\* store is written only on a change.
WriteOnlyOnChangeExpiryDate ==
    [][ \A p \in Callers :
          (LoggedIn(p) /\ cookie' # cookie /\ cookie.expires = Undefined) =>
              getTime(session'[p].tokens.expiry_date) # getTime(oauthData[p].expiry_date) ]_vars

\* C9: with calls that interleave, every session is built from a present
\* shared client, the one in place when the call went on; a rebuild that
\* completes replaces the shared client and lastRefreshedAt whatever the other
\* calls did meanwhile, so the last one to complete decides both.
C9_SessionsOfPresentClient ==
    /\ (innertube = 0) <=> (lastRefreshedAt = NaN)
    /\ lastRefreshedAt <= now
    /\ \A p \in Callers :
          pc[p] \in {"init", "refresh", "fetch"}
              => (session[p].base >= 1 /\ session[p].base <= innertube)

\* C9, in full: the invariant above, and what a completing rebuild does.
C9_LastWriteWins ==
    /\ []C9_SessionsOfPresentClient
    /\ [][ \A p \in Callers :
             (pc[p] = "create" /\ pc'[p] \in {"init", "fetch"}) =>
                 /\ innertube' = innertube + 1
                 /\ lastRefreshedAt' = now
                 /\ session'[p].base = innertube' ]_vars

\* Both calls passed the check and rebuilt within the first period, and each
\* holds a session of the client it built.
C9_Witness ==
    /\ now < PLAYER_REFRESH_PERIOD
    /\ innertube = 2
    /\ pc["r1"] = "fetch" /\ pc["r2"] = "fetch"
    /\ {session["r1"].base, session["r2"].base} = {1, 2}

====
